---- MODULE Spec2Model ----
(***************************************************************************)
(* Model of the supervisor workflow of hierarchical_research_ai            *)
(* (workflows/supervisor.py) together with the agent contract of           *)
(* agents/base_agent.py.                                                   *)
(*                                                                         *)
(* A run is the compiled state graph of _create_workflow driven from the   *)
(* initial state of execute_workflow.  Every phase executor is an async    *)
(* function; its position (before its first line, suspended in the await   *)
(* of its i-th agent, returned) is part of the state.  An agent invocation *)
(* either returns a result or fails inside BaseAgent.process, which        *)
(* catches the exception itself, appends "<agent name>: <message>" to the  *)
(* shared errors list and returns normally.                                *)
(*                                                                         *)
(* Quality scores are floats in the source; they are kept in tenths here   *)
(* (6.0 is 60).  The workflow only tests the errors list for emptiness and *)
(* length, so every error string is represented by one token.              *)
(*                                                                         *)
(* Spec is the graph run alone, PredSpec the transition predicates on      *)
(* arbitrary states, DriverSpec the run together with the streaming loop   *)
(* and the result of execute_workflow, and SystemSpec the project registry *)
(* of HierarchicalResearchSystem (workflows/research_workflow.py), for     *)
(* which execute_workflow and the report generator are collaborators that  *)
(* return or raise.                                                        *)
(***************************************************************************)
EXTENDS Integers, Sequences, FiniteSets, TLC

VARIABLES
    node,               \* graph node that runs next / is running; "END" when the graph has finished
    pc,                 \* "start" | "await" | "route" | "done" | "pure"
    idx,                \* index of the agent the running executor awaits (0: none)
    current_phase,      \* state["current_phase"]
    progress,           \* state["progress"]: current_phase, completion_percentage, phases_completed
    agent_outputs,      \* state["agent_outputs"]: agent name -> value
    completed_agents,   \* state["completed_agents"]
    user_sources,       \* state["user_sources"]
    errors,             \* state["errors"]
    qa_retry_count,     \* state["qa_retry_count"]
    decision,           \* value returned by the conditional edge evaluated last
    prev_node,          \* node whose outgoing edge was evaluated last
    trace,              \* phase executors started so far, in order
    invoked,            \* labels of the agents invoked so far by the current pass
    stream_mode,        \* shape of the items workflow.astream yields ("none": no driver loop)
    callback_log,       \* invocations of progress_callback so far, in order
    workflow_result,    \* what execute_workflow has returned (status "pending" before)
    now,                \* datetime.now(), in ticks of 1/TicksPerSecond second
    projects,           \* HierarchicalResearchSystem.projects: project id -> ResearchProject
    started,            \* the projects start_project has returned so far, in order
    reports,            \* the calls of generate_report so far and what they returned or raised
    runs,               \* the calls of execute_workflow on one supervisor: thread id and state record
    checkpoints         \* self.checkpointer: thread id -> the state saved last under it

\* what the loop of execute_workflow reads and writes besides the graph state
driver_vars == <<stream_mode, callback_log, workflow_result>>

\* the state of a HierarchicalResearchSystem and its clock
system_vars == <<now, projects, started, reports>>

\* the runs started on one HierarchicalSupervisor and its checkpointer
supervisor_vars == <<runs, checkpoints>>

\* the state of one run of the workflow graph
run_vars == <<node, pc, idx, current_phase, progress, agent_outputs, completed_agents,
              user_sources, errors, qa_retry_count, decision, prev_node, trace, invoked>>

vars == <<node, pc, idx, current_phase, progress, agent_outputs, completed_agents,
          user_sources, errors, qa_retry_count, decision, prev_node, trace, invoked,
          stream_mode, callback_log, workflow_result, now, projects, started, reports,
          runs, checkpoints>>

(***************************************************************************)
(* Bounds of the model                                                     *)
(***************************************************************************)
MaxNow == 3
MaxProjects == 2
MaxReports == 2
TicksPerSecond == 2
\* research_planning passes explored in one run (the retry edge is not bounded by the code)
MaxPlanningPasses == 5
\* agent invocations that fail in one run
MaxFailures == 8
\* longest errors list drawn for the transition predicates applied to arbitrary states
MaxPredErrors == 12

(***************************************************************************)
(* Program constants                                                       *)
(***************************************************************************)
PlanningErrorLimit == 3
DataCollectionErrorLimit == 5
AnalysisErrorLimit == 7
GenerationErrorLimit == 10
MaxQaRetries == 3
QualityThreshold == 60
DefaultQualityScore == 70
PercentPerPhase == 20

\* quality scores a peer review may return (tenths): below, at and above the threshold
Scores == {40, 60}

END == "END"

(***************************************************************************)
(* Agents of each phase: (label used by the supervisor, agent name)        *)
(***************************************************************************)
planning_agents ==
    << [label |-> "domain_analysis",    agent |-> "DomainAnalysisAgent"],
       [label |-> "literature_survey",  agent |-> "LiteratureSurveyAgent"],
       [label |-> "research_questions", agent |-> "ResearchQuestionFormulationAgent"] >>

analysis_agents ==
    << [label |-> "quantitative_analysis", agent |-> "QuantitativeAnalysisAgent"],
       [label |-> "qualitative_analysis",  agent |-> "QualitativeAnalysisAgent"],
       [label |-> "synthesis",             agent |-> "SynthesisAgent"] >>

qa_agents ==
    << [label |-> "peer_review",           agent |-> "PeerReviewAgent"],
       [label |-> "citation_verification", agent |-> "CitationVerificationAgent"],
       [label |-> "compliance_check",      agent |-> "AcademicStandardsComplianceAgent"] >>

editing_agents ==
    << [label |-> "editor", agent |-> "EditorAgent"] >>

sections_to_write ==
    << "introduction", "literature_review", "methodology", "results", "discussion", "conclusion" >>

generation_agents ==
    [i \in 1..Len(sections_to_write) |->
        [label |-> sections_to_write[i], agent |-> "SectionWritingAgent"]]
    \o << [label |-> "coherence",      agent |-> "CoherenceIntegrationAgent"],
          [label |-> "final_assembly", agent |-> "FinalAssemblyAgent"] >>

analysis_agent_names == {analysis_agents[i].label : i \in 1..Len(analysis_agents)}
qa_agent_names == {qa_agents[i].label : i \in 1..Len(qa_agents)}

planning_required_outputs == {planning_agents[i].agent : i \in 1..Len(planning_agents)}
analysis_required_outputs == {analysis_agents[i].agent : i \in 1..Len(analysis_agents)}

Phases == {"research_planning", "data_collection", "analysis", "quality_assurance",
           "editing", "report_generation"}

(***************************************************************************)
(* Python list / dict helpers                                              *)
(***************************************************************************)
Contains(list, x) == \E i \in 1..Len(list) : list[i] = x

FirstIndex(list, x) == CHOOSE i \in 1..Len(list) : list[i] = x /\ \A j \in 1..(i-1) : list[j] # x

\* list.remove(x) guarded by "if x in list": drops the first occurrence of x
remove(list, x) ==
    IF Contains(list, x)
    THEN LET k == FirstIndex(list, x)
         IN  SubSeq(list, 1, k-1) \o SubSeq(list, k+1, Len(list))
    ELSE list

\* variant: the executor empties completed_agents instead of removing its own names
remove_all_clearing(list, names) == <<>>

RECURSIVE remove_all(_, _)
\* "for agent_name in names: if agent_name in completed_agents: completed_agents.remove(agent_name)"
remove_all(list, names) ==
    IF names = <<>> THEN list
    ELSE remove_all(remove(list, Head(names)), Tail(names))

Labels(agents) == [i \in 1..Len(agents) |-> agents[i].label]

Count(list, x) == Cardinality({i \in 1..Len(list) : list[i] = x})

IsPrefix(s, t) == Len(s) <= Len(t) /\ SubSeq(t, 1, Len(s)) = s

\* a value stored under a key of agent_outputs
ListValue(items) == [kind |-> "list", items |-> items]
DictValue(fields) == [kind |-> "dict", fields |-> fields]
OtherValue == [kind |-> "other"]

\* the result dict an agent's _execute returns
Result(agent, score) ==
    IF agent = "PeerReviewAgent" THEN [timestamp |-> "t", quality_score |-> score]
    ELSE [timestamp |-> "t"]

\* keys of the AgentState dict the executors hand to an agent
AgentStateKeys == {"messages", "research_topic", "current_task", "outputs", "metadata", "errors"}

\* SectionWritingAgent._execute: state.get("current_section", "introduction");
\* the executor puts the section it asks for into metadata["current_section"]
section_name_of(requested) ==
    IF "current_section" \in AgentStateKeys THEN requested ELSE "introduction"

\* the result dict the awaited agent a returns
execute_result(a, score) ==
    IF a.agent = "SectionWritingAgent"
    THEN [timestamp |-> "t", section_name |-> section_name_of(a.label)]
    ELSE Result(a.agent, score)

\* FinalAssemblyAgent._gather_sections: the written sections, keyed by section_name
gather_sections(outputs) ==
    IF "SectionWritingAgent" \in DOMAIN outputs
    THEN {outputs["SectionWritingAgent"].items[i].section_name :
             i \in 1..Len(outputs["SectionWritingAgent"].items)}
    ELSE {}

(***************************************************************************)
(* BaseAgent                                                               *)
(***************************************************************************)
\* BaseAgent._update_state: create the agent's list if absent, append the result
update_state(outputs, name, result) ==
    IF name \in DOMAIN outputs
    THEN [outputs EXCEPT ![name] = ListValue(Append(@.items, result))]
    ELSE outputs @@ (name :> ListValue(<<result>>))

\* BaseAgent.process when _execute returns: outputs after the call
process_outputs(outputs, name, ok, result) ==
    IF ok THEN update_state(outputs, name, result) ELSE outputs

\* BaseAgent.process when _execute raises: the exception is caught and recorded
\* f"{self.name}: {str(e)}"
error_message(name) == "error"

\* variant: a successful invocation resets the errors list
process_errors_resetting(errs, name, ok) ==
    IF ok THEN <<>> ELSE Append(errs, error_message(name))

process_errors(errs, name, ok) ==
    IF ok THEN errs ELSE Append(errs, error_message(name))

(***************************************************************************)
(* Progress bookkeeping shared by the phase executors                      *)
(***************************************************************************)
\* variant: the phase is appended without the membership test
mark_phase_completed_unchecked(phases_completed, phase) ==
    Append(phases_completed, phase)

\* "if phase not in phases_completed: phases_completed.append(phase)"
mark_phase_completed(phases_completed, phase) ==
    IF Contains(phases_completed, phase) THEN phases_completed
    ELSE Append(phases_completed, phase)

\* variant: the percentage is computed for four phases
completion_percentage_of_four(phases_completed) == Len(phases_completed) * 25

completion_percentage(phases_completed) == Len(phases_completed) * PercentPerPhase

(***************************************************************************)
(* Quality gate                                                            *)
(***************************************************************************)
\* variant: a peer-review result without a score counts as failing
quality_score_of_failing_closed(peer_review) ==
    IF "quality_score" \in DOMAIN peer_review THEN peer_review.quality_score
    ELSE 0

\* dict.get("quality_score", 7.0) on a peer-review result
quality_score_of(peer_review) ==
    IF "quality_score" \in DOMAIN peer_review THEN peer_review.quality_score
    ELSE DefaultQualityScore

\* variant: the executor never writes the incremented count back to the state
updated_qa_retry_count_dropped(outputs, retry_count) == retry_count

\* _quality_assurance_supervisor, trailing block: new value of qa_retry_count
updated_qa_retry_count(outputs, retry_count) ==
    IF "PeerReviewAgent" \in DOMAIN outputs
    THEN LET peer_review_output == outputs["PeerReviewAgent"]
             peer_review ==
                 IF peer_review_output.kind = "dict" THEN peer_review_output.fields
                 ELSE IF peer_review_output.kind = "list" /\ peer_review_output.items # <<>>
                      THEN peer_review_output.items[1]
                      ELSE [x \in {} |-> 0]
             quality_score == quality_score_of(peer_review)
         IN  IF quality_score < QualityThreshold /\ retry_count < MaxQaRetries
             THEN retry_count + 1
             ELSE retry_count
    ELSE retry_count

(***************************************************************************)
(* Transition predicates (conditional edges)                               *)
(***************************************************************************)
\* variant: the required outputs are looked up under the agents' labels
should_continue_to_data_collection_by_label(errs, outputs) ==
    IF errs # <<>>
    THEN IF Len(errs) > PlanningErrorLimit THEN "end" ELSE "retry"
    ELSE IF \A i \in 1..Len(planning_agents) : planning_agents[i].label \in DOMAIN outputs
         THEN "continue"
         ELSE "retry"

should_continue_to_data_collection(errs, outputs) ==
    IF errs # <<>>
    THEN IF Len(errs) > PlanningErrorLimit THEN "end" ELSE "retry"
    ELSE IF \A a \in planning_required_outputs : a \in DOMAIN outputs
         THEN "continue"
         ELSE "retry"

should_continue_to_analysis(errs) ==
    IF errs # <<>> /\ Len(errs) > DataCollectionErrorLimit THEN "end"
    ELSE "continue"

\* variant: the abort test uses >= instead of >
should_continue_to_qa_inclusive(errs, outputs) ==
    IF errs # <<>> /\ Len(errs) >= AnalysisErrorLimit THEN "end"
    ELSE IF \A a \in analysis_required_outputs : a \in DOMAIN outputs
         THEN "continue"
         ELSE "retry"

should_continue_to_qa(errs, outputs) ==
    IF errs # <<>> /\ Len(errs) > AnalysisErrorLimit THEN "end"
    ELSE IF \A a \in analysis_required_outputs : a \in DOMAIN outputs
         THEN "continue"
         ELSE "retry"

\* variant: the edge decides on the score alone and ignores the retry count
should_continue_to_generation_uncapped(errs, outputs, retry_count) ==
    IF errs # <<>> /\ Len(errs) > GenerationErrorLimit THEN "end"
    ELSE IF "PeerReviewAgent" \in DOMAIN outputs
         THEN LET peer_review_output == outputs["PeerReviewAgent"]
              IN  IF peer_review_output.kind = "list" /\ peer_review_output.items # <<>>
                  THEN IF quality_score_of(peer_review_output.items[1]) < QualityThreshold
                       THEN "edit" ELSE "continue"
                  ELSE IF peer_review_output.kind = "dict"
                       THEN IF quality_score_of(peer_review_output.fields) < QualityThreshold
                            THEN "edit" ELSE "continue"
                       ELSE "continue"
         ELSE "continue"

should_continue_to_generation(errs, outputs, retry_count) ==
    IF errs # <<>> /\ Len(errs) > GenerationErrorLimit THEN "end"
    ELSE IF retry_count >= MaxQaRetries THEN "continue"
    ELSE IF "PeerReviewAgent" \in DOMAIN outputs
         THEN LET peer_review_output == outputs["PeerReviewAgent"]
              IN  IF peer_review_output.kind = "list" /\ peer_review_output.items # <<>>
                  THEN IF quality_score_of(peer_review_output.items[1]) < QualityThreshold
                          /\ retry_count < MaxQaRetries
                       THEN "edit" ELSE "continue"
                  ELSE IF peer_review_output.kind = "dict"
                       THEN IF quality_score_of(peer_review_output.fields) < QualityThreshold
                               /\ retry_count < MaxQaRetries
                            THEN "edit" ELSE "continue"
                       ELSE "continue"
         ELSE "continue"

(***************************************************************************)
(* Edges of the compiled graph (_create_workflow)                          *)
(***************************************************************************)
\* variant: a planning retry moves on to data collection
planning_edges_retrying_forward == [continue |-> "data_collection", retry |-> "data_collection", end |-> END]

planning_edges == [continue |-> "data_collection", retry |-> "research_planning", end |-> END]
data_collection_edges == [continue |-> "analysis", retry |-> "data_collection", end |-> END]
analysis_edges == [continue |-> "quality_assurance", retry |-> "analysis", end |-> END]
\* variant: the edit decision leads straight back to analysis
qa_edges_skipping_editing == [continue |-> "report_generation", edit |-> "analysis", end |-> END]

qa_edges == [continue |-> "report_generation", edit |-> "editing", end |-> END]

(***************************************************************************)
(* Initial state (execute_workflow)                                        *)
(***************************************************************************)
initial_progress ==
    [current_phase |-> "initialization", completion_percentage |-> 0, phases_completed |-> <<>>]

\* execute_workflow has not returned yet
NotReturned == [status |-> "pending"]

\* the driver's loop and the project system take no part in the step
Detached == UNCHANGED <<driver_vars, system_vars, supervisor_vars>>

\* a system on which no project has been started, a supervisor that has run nothing
no_projects ==
    /\ now = 0
    /\ projects = [x \in {} |-> 0]
    /\ started = <<>>
    /\ reports = <<>>
    /\ runs = <<>>
    /\ checkpoints = [x \in {} |-> 0]

initial_state ==
    /\ node = "research_planning"
    /\ pc = "start"
    /\ idx = 0
    /\ current_phase = "initialization"
    /\ progress = initial_progress
    /\ agent_outputs = [x \in {} |-> 0]
    /\ completed_agents = <<>>
    /\ user_sources = "empty"
    /\ errors = <<>>
    /\ qa_retry_count = 0
    /\ decision = "none"
    /\ prev_node = "none"
    /\ trace = <<>>
    /\ invoked = <<>>

Init ==
    /\ initial_state
    /\ stream_mode = "none"
    /\ callback_log = <<>>
    /\ workflow_result = NotReturned
    /\ no_projects

(***************************************************************************)
(* Phase executors                                                         *)
(***************************************************************************)
\* first lines of an executor, up to the await of its first agent
EnterPhase(phase, clear_names) ==
    /\ pc = "start"
    /\ node = phase
    /\ current_phase' = phase
    /\ progress' = [progress EXCEPT !.current_phase = phase]
    /\ completed_agents' = remove_all(completed_agents, clear_names)
    /\ trace' = Append(trace, phase)
    /\ invoked' = <<>>
    /\ pc' = "await"
    /\ idx' = 1
    /\ UNCHANGED <<node, agent_outputs, user_sources, errors, qa_retry_count, decision, prev_node>>

\* outcomes of the awaited invocation: it returns (TRUE) or raises (FALSE)
Outcomes == IF Len(errors) < MaxFailures THEN BOOLEAN ELSE {TRUE}

\* scores the awaited agent may report
ScoresOf(agent, ok) == IF agent = "PeerReviewAgent" /\ ok THEN Scores ELSE {0}

\* body of "for agent_name, agent in agents_to_run": the awaited agent returns (ok) or
\* fails inside process (~ok); the supervisor's own except branch is not reachable
\* because process catches every Exception
InvokeAgent(a, ok, score, record_completion) ==
    /\ agent_outputs' = process_outputs(agent_outputs, a.agent, ok, execute_result(a, score))
    /\ errors' = process_errors(errors, a.agent, ok)
    /\ completed_agents' = IF record_completion THEN Append(completed_agents, a.label)
                           ELSE completed_agents
    /\ invoked' = Append(invoked, a.label)

\* the executor goes on to await its next agent
NextAgent ==
    /\ idx' = idx + 1
    /\ UNCHANGED <<pc, progress, qa_retry_count>>

\* "Update progress" block and return
FinishPhase(phase) ==
    /\ idx' = 0
    /\ pc' = "route"
    /\ progress' = LET done == mark_phase_completed(progress.phases_completed, phase)
                   IN  [progress EXCEPT !.phases_completed = done,
                                        !.completion_percentage = completion_percentage(done)]

research_planning_supervisor ==
    \/ /\ Count(trace, "research_planning") < MaxPlanningPasses
       /\ EnterPhase("research_planning", <<>>)
    \/ /\ pc = "await"
       /\ node = "research_planning"
       /\ \E ok \in Outcomes :
            /\ InvokeAgent(planning_agents[idx], ok, 0, TRUE)
            /\ IF idx < Len(planning_agents)
               THEN NextAgent
               ELSE FinishPhase("research_planning") /\ UNCHANGED qa_retry_count
       /\ UNCHANGED <<node, current_phase, user_sources, decision, prev_node, trace>>

data_collection_supervisor ==
    /\ pc = "start"
    /\ node = "data_collection"
    /\ current_phase' = "data_collection"
    /\ user_sources' = "user_content"
    /\ progress' = LET done == mark_phase_completed(progress.phases_completed, "data_collection")
                   IN  [current_phase |-> "data_collection",
                        phases_completed |-> done,
                        completion_percentage |-> completion_percentage(done)]
    /\ trace' = Append(trace, "data_collection")
    /\ invoked' = <<>>
    /\ pc' = "route"
    /\ UNCHANGED <<node, idx, agent_outputs, completed_agents, errors, qa_retry_count,
                   decision, prev_node>>

analysis_supervisor ==
    \/ EnterPhase("analysis", Labels(analysis_agents))
    \/ /\ pc = "await"
       /\ node = "analysis"
       /\ \E ok \in Outcomes :
            /\ InvokeAgent(analysis_agents[idx], ok, 0, TRUE)
            /\ IF idx < Len(analysis_agents)
               THEN NextAgent
               ELSE FinishPhase("analysis") /\ UNCHANGED qa_retry_count
       /\ UNCHANGED <<node, current_phase, user_sources, decision, prev_node, trace>>

quality_assurance_supervisor ==
    \/ EnterPhase("quality_assurance", Labels(qa_agents))
    \/ /\ pc = "await"
       /\ node = "quality_assurance"
       /\ \E ok \in Outcomes :
          \E score \in ScoresOf(qa_agents[idx].agent, ok) :
            /\ InvokeAgent(qa_agents[idx], ok, score, TRUE)
            /\ IF idx < Len(qa_agents)
               THEN NextAgent
               ELSE /\ FinishPhase("quality_assurance")
                    /\ qa_retry_count' = updated_qa_retry_count(agent_outputs', qa_retry_count)
       /\ UNCHANGED <<node, current_phase, user_sources, decision, prev_node, trace>>

\* EditorAgent._gather_qa_feedback: the feedback dict is created with five keys and
\* the entries of the QA outputs that are present are filled in
gather_qa_feedback(outputs) ==
    [peer_review       |-> "PeerReviewAgent" \in DOMAIN outputs,
     citation_issues   |-> "CitationVerificationAgent" \in DOMAIN outputs,
     compliance_issues |-> "AcademicStandardsComplianceAgent" \in DOMAIN outputs,
     total_issues      |-> 0,
     recommendations   |-> <<>>]

\* _gather_qa_feedback reads entry[0] of a list and calls get on it: an empty list
\* or an entry that is neither list nor dict makes _execute raise
editor_feedback_raises(outputs) ==
    \E i \in 1..Len(qa_agents) :
        /\ qa_agents[i].agent \in DOMAIN outputs
        /\ \/ outputs[qa_agents[i].agent].kind = "other"
           \/ /\ outputs[qa_agents[i].agent].kind = "list"
              /\ outputs[qa_agents[i].agent].items = <<>>

\* EditorAgent._execute: "if not qa_feedback", the truth value of a dict
editor_no_action(outputs) == DOMAIN gather_qa_feedback(outputs) = {}

\* the result dict EditorAgent._execute returns
editor_result(outputs) ==
    IF editor_no_action(outputs)
    THEN [timestamp |-> "t", edit_action |-> "no_action"]
    ELSE [timestamp |-> "t", edit_action |-> "guidelines_generated"]

\* outcomes of awaiting the editor: the model is invoked, and may fail, only when
\* the no_action branch is not taken
EditorOutcomes(outputs) ==
    IF editor_feedback_raises(outputs) THEN {FALSE}
    ELSE IF editor_no_action(outputs) THEN {TRUE}
    ELSE Outcomes

\* EditorAgent._execute stores its guidelines under "improvement_guidelines" before returning
with_guidelines(outputs) ==
    ("improvement_guidelines" :> DictValue([general |-> "g"])) @@ outputs

\* the arguments of the "Content editing completed" log call,
\* result_state["outputs"].get("EditorAgent", {}).get(...): the entry _update_state
\* keeps is a list, which has no get, so evaluating them raises AttributeError
\* inside the supervisor's try block
editing_log_raises(outputs) ==
    "EditorAgent" \in DOMAIN outputs /\ outputs["EditorAgent"].kind # "dict"

\* _editing_supervisor: errors after process has returned and the log call has been
\* evaluated; the except branch appends f"Editing error: {str(e)}"
editing_errors(errs, outputs, ok) ==
    LET after_process == process_errors(errs, "EditorAgent", ok)
    IN  IF editing_log_raises(outputs)
        THEN Append(after_process, error_message("editing_supervisor"))
        ELSE after_process

editing_supervisor ==
    \/ EnterPhase("editing", <<>>)
    \/ /\ pc = "await"
       /\ node = "editing"
       /\ \E ok \in EditorOutcomes(agent_outputs) :
            /\ agent_outputs' = IF ok
                                THEN update_state(IF editor_no_action(agent_outputs)
                                                  THEN agent_outputs
                                                  ELSE with_guidelines(agent_outputs),
                                                  "EditorAgent", editor_result(agent_outputs))
                                ELSE agent_outputs
            /\ errors' = editing_errors(errors, agent_outputs', ok)
            /\ completed_agents' = Append(completed_agents, "editor")
            /\ invoked' = Append(invoked, "editor")
       /\ idx' = 0
       /\ pc' = "route"
       /\ progress' = [progress EXCEPT
                         !.completion_percentage = completion_percentage(progress.phases_completed)]
       /\ UNCHANGED <<node, current_phase, user_sources, qa_retry_count, decision, prev_node, trace>>

report_generation_supervisor ==
    \/ EnterPhase("report_generation", <<>>)
    \/ /\ pc = "await"
       /\ node = "report_generation"
       /\ \E ok \in Outcomes :
            /\ InvokeAgent(generation_agents[idx], ok, 0, FALSE)
            /\ IF idx < Len(generation_agents)
               THEN NextAgent
               ELSE /\ idx' = 0
                    /\ pc' = "route"
                    /\ progress' = [progress EXCEPT
                           !.phases_completed = mark_phase_completed(@, "report_generation"),
                           !.completion_percentage = 100]
                    /\ UNCHANGED qa_retry_count
       /\ UNCHANGED <<node, current_phase, user_sources, decision, prev_node, trace>>

(***************************************************************************)
(* Graph engine: evaluation of the edge leaving the node that has returned *)
(***************************************************************************)
\* variant: the edge itself counts the retry when it decides to edit
Goto_counting_retries(from, d, target) ==
    /\ decision' = d
    /\ prev_node' = from
    /\ node' = target
    /\ pc' = IF target = END THEN "done" ELSE "start"
    /\ qa_retry_count' = IF d = "edit" THEN qa_retry_count + 1 ELSE qa_retry_count
    /\ UNCHANGED <<idx, current_phase, progress, agent_outputs, completed_agents,
                   user_sources, errors, trace, invoked>>

Goto(from, d, target) ==
    /\ decision' = d
    /\ prev_node' = from
    /\ node' = target
    /\ pc' = IF target = END THEN "done" ELSE "start"
    /\ UNCHANGED <<idx, current_phase, progress, agent_outputs, completed_agents,
                   user_sources, errors, qa_retry_count, trace, invoked>>

route_research_planning ==
    /\ pc = "route" /\ node = "research_planning"
    /\ LET d == should_continue_to_data_collection(errors, agent_outputs)
       IN  Goto(node, d, planning_edges[d])

route_data_collection ==
    /\ pc = "route" /\ node = "data_collection"
    /\ LET d == should_continue_to_analysis(errors)
       IN  Goto(node, d, data_collection_edges[d])

route_analysis ==
    /\ pc = "route" /\ node = "analysis"
    /\ LET d == should_continue_to_qa(errors, agent_outputs)
       IN  Goto(node, d, analysis_edges[d])

route_quality_assurance ==
    /\ pc = "route" /\ node = "quality_assurance"
    /\ LET d == should_continue_to_generation(errors, agent_outputs, qa_retry_count)
       IN  Goto(node, d, qa_edges[d])

\* workflow.add_edge("editing", "analysis")
edge_editing ==
    /\ pc = "route" /\ node = "editing"
    /\ Goto(node, "edge", "analysis")

\* workflow.add_edge("report_generation", END)
edge_report_generation ==
    /\ pc = "route" /\ node = "report_generation"
    /\ Goto(node, "edge", END)

Next ==
    \/ research_planning_supervisor /\ Detached
    \/ data_collection_supervisor /\ Detached
    \/ analysis_supervisor /\ Detached
    \/ quality_assurance_supervisor /\ Detached
    \/ editing_supervisor /\ Detached
    \/ report_generation_supervisor /\ Detached
    \/ route_research_planning /\ Detached
    \/ route_data_collection /\ Detached
    \/ route_analysis /\ Detached
    \/ route_quality_assurance /\ Detached
    \/ edge_editing /\ Detached
    \/ edge_report_generation /\ Detached

Spec == Init /\ [][Next]_vars

TypeOK ==
    /\ node \in Phases \cup {END, "none"}
    /\ pc \in {"start", "await", "route", "done", "pure"}
    /\ qa_retry_count \in Nat

(***************************************************************************)
(* The transition predicates applied to arbitrary states                   *)
(***************************************************************************)
PredScores == {40, 59, 60, 70}

\* shapes the peer-review entry of agent_outputs may have
PeerReviewValues ==
    {ListValue(<<>>), ListValue(<<[timestamp |-> "t"]>>), DictValue([timestamp |-> "t"]), OtherValue}
    \cup {ListValue(<<Result("PeerReviewAgent", s)>>) : s \in PredScores}
    \cup {DictValue(Result("PeerReviewAgent", s)) : s \in PredScores}

\* no "PeerReviewAgent" key at all
AbsentValue == [kind |-> "absent"]

OutputsWith(present, peer) ==
    LET base == [a \in present |-> ListValue(<<Result(a, 0)>>)]
    IN  IF peer = AbsentValue THEN base ELSE ("PeerReviewAgent" :> peer) @@ base

PredInit ==
    /\ node = "none"
    /\ pc = "pure"
    /\ idx = 0
    /\ current_phase = "initialization"
    /\ progress = [current_phase |-> "initialization",
                   completion_percentage |-> 0,
                   phases_completed |-> <<>>]
    /\ \E present \in SUBSET (planning_required_outputs \cup analysis_required_outputs) :
       \E peer \in PeerReviewValues \cup {AbsentValue} :
            agent_outputs = OutputsWith(present, peer)
    /\ completed_agents = <<>>
    /\ user_sources = "empty"
    /\ \E n \in 0..MaxPredErrors : errors = [i \in 1..n |-> error_message("agent")]
    /\ qa_retry_count \in 0..MaxQaRetries
    /\ decision = "none"
    /\ prev_node = "none"
    /\ trace = <<>>
    /\ invoked = <<>>
    /\ stream_mode = "none"
    /\ callback_log = <<>>
    /\ workflow_result = NotReturned
    /\ no_projects

Evaluated(from, d) ==
    /\ pc = "pure"
    /\ decision' = d
    /\ prev_node' = from
    /\ UNCHANGED <<node, pc, idx, current_phase, progress, agent_outputs, completed_agents,
                   user_sources, errors, qa_retry_count, trace, invoked>>
    /\ Detached

eval_should_continue_to_data_collection ==
    Evaluated("research_planning", should_continue_to_data_collection(errors, agent_outputs))

eval_should_continue_to_analysis ==
    Evaluated("data_collection", should_continue_to_analysis(errors))

eval_should_continue_to_qa ==
    Evaluated("analysis", should_continue_to_qa(errors, agent_outputs))

eval_should_continue_to_generation ==
    Evaluated("quality_assurance",
              should_continue_to_generation(errors, agent_outputs, qa_retry_count))

\* the trailing block of _quality_assurance_supervisor applied to the drawn state
apply_quality_gate ==
    /\ pc = "pure"
    /\ qa_retry_count' = updated_qa_retry_count(agent_outputs, qa_retry_count)
    /\ decision' = "none"
    /\ prev_node' = "quality_gate"
    /\ UNCHANGED <<node, pc, idx, current_phase, progress, agent_outputs, completed_agents,
                   user_sources, errors, trace, invoked>>
    /\ Detached

PredNext ==
    \/ eval_should_continue_to_data_collection
    \/ eval_should_continue_to_analysis
    \/ eval_should_continue_to_qa
    \/ eval_should_continue_to_generation
    \/ apply_quality_gate

PredSpec == PredInit /\ [][PredNext]_vars

(***************************************************************************)
(* The editing executor applied to states with any subset of the QA outputs *)
(***************************************************************************)
MaxEditErrors == 2

qa_required_outputs == {qa_agents[i].agent : i \in 1..Len(qa_agents)}

PhasesBeforeEditing == <<"research_planning", "data_collection", "analysis", "quality_assurance">>

EditingInit ==
    /\ node = "editing"
    /\ pc = "start"
    /\ idx = 0
    /\ current_phase = "quality_assurance"
    /\ progress = [current_phase |-> "quality_assurance",
                   completion_percentage |-> completion_percentage(PhasesBeforeEditing),
                   phases_completed |-> PhasesBeforeEditing]
    /\ \E present \in SUBSET qa_required_outputs :
       \E score \in PredScores :
            agent_outputs = [a \in present |-> ListValue(<<Result(a, score)>>)]
    /\ completed_agents = <<>>
    /\ user_sources = "empty"
    /\ \E n \in 0..MaxEditErrors : errors = [i \in 1..n |-> error_message("agent")]
    /\ qa_retry_count \in 0..MaxQaRetries
    /\ decision = "edit"
    /\ prev_node = "quality_assurance"
    /\ trace = <<>>
    /\ invoked = <<>>
    /\ stream_mode = "none"
    /\ callback_log = <<>>
    /\ workflow_result = NotReturned
    /\ no_projects

EditingNext == editing_supervisor /\ Detached

EditingSpec == EditingInit /\ [][EditingNext]_vars

(***************************************************************************)
(* execute_workflow: the loop over workflow.astream and the returned result *)
(* (a progress_callback is supplied)                                       *)
(***************************************************************************)
\* astream is called without a stream mode: an item is either the state after the
\* node that has run ("values") or a mapping from that node's name to what it
\* returned ("updates"), depending on the default of the compiled graph
StreamModes == {"values", "updates"}

research_topic == "topic"

\* f"workflow_{datetime.now().strftime('%Y%m%d_%H%M%S')}"
thread_id == "workflow_t"

\* str(e) of an exception raised by progress_callback
CallbackError == "callback error"

\* key in state, for a key of SupervisorState and the item yielded last
item_has_state_keys == stream_mode = "values"

\* final_state.get(key, default), value being state[key]
final_state_get(value, default) == IF item_has_state_keys THEN value ELSE default

\* the result built after the loop has ended
completed_result ==
    LET errs == final_state_get(errors, <<>>)
    IN  [status |-> IF errs = <<>> THEN "completed" ELSE "completed_with_errors",
         research_topic |-> research_topic,
         agent_outputs |-> final_state_get(agent_outputs, [x \in {} |-> 0]),
         progress |-> final_state_get(progress, [completion_percentage |-> 0]),
         errors |-> errs,
         completed_agents |-> final_state_get(completed_agents, <<>>),
         thread_id |-> thread_id]

\* the result built by "except Exception as e"; p is initial_state["progress"]
failed_result(message, p) ==
    [status |-> "failed",
     error |-> message,
     research_topic |-> research_topic,
     agent_outputs |-> [x \in {} |-> 0],
     progress |-> p,
     errors |-> <<message>>,
     thread_id |-> thread_id]

\* the loop is still consuming items
InLoop == stream_mode \in StreamModes /\ workflow_result = NotReturned

\* body of "async for state in self.workflow.astream(...)" for the item yielded
\* after a node has run and its outgoing edge has been evaluated; the callback
\* returns or raises, and an exception leaves the loop for the except branch
\* (initial_state["progress"] may or may not be the object the executors updated)
loop_body ==
    /\ InLoop
    /\ IF item_has_state_keys
       THEN \E raises \in BOOLEAN :
              /\ callback_log' = Append(callback_log,
                                        [phase |-> progress.current_phase,
                                         percentage |-> progress.completion_percentage,
                                         raised |-> raises])
              /\ IF raises
                 THEN \E p \in {initial_progress, progress} :
                        workflow_result' = failed_result(CallbackError, p)
                 ELSE UNCHANGED workflow_result
       ELSE UNCHANGED <<callback_log, workflow_result>>
    /\ UNCHANGED <<stream_mode, system_vars, supervisor_vars>>

\* the stream is exhausted: "final_state = state" and the result is returned
execute_workflow_return ==
    /\ InLoop
    /\ pc = "done"
    /\ workflow_result' = completed_result
    /\ UNCHANGED <<node, pc, idx, current_phase, progress, agent_outputs, completed_agents,
                   user_sources, errors, qa_retry_count, decision, prev_node, trace, invoked,
                   stream_mode, callback_log, system_vars, supervisor_vars>>

DriverInit ==
    /\ initial_state
    /\ stream_mode \in StreamModes
    /\ callback_log = <<>>
    /\ workflow_result = NotReturned
    /\ no_projects

DriverNext ==
    \/ InLoop /\ research_planning_supervisor /\ Detached
    \/ InLoop /\ data_collection_supervisor /\ Detached
    \/ InLoop /\ analysis_supervisor /\ Detached
    \/ InLoop /\ quality_assurance_supervisor /\ Detached
    \/ InLoop /\ editing_supervisor /\ Detached
    \/ InLoop /\ report_generation_supervisor /\ Detached
    \/ route_research_planning /\ loop_body
    \/ route_data_collection /\ loop_body
    \/ route_analysis /\ loop_body
    \/ route_quality_assurance /\ loop_body
    \/ edge_editing /\ loop_body
    \/ edge_report_generation /\ loop_body
    \/ execute_workflow_return

DriverSpec == DriverInit /\ [][DriverNext]_vars

(***************************************************************************)
(* HierarchicalResearchSystem: start_project, generate_report, list_projects *)
(***************************************************************************)
Topics == {"topic_a", "topic_b"}

\* f"proj_{datetime.now().strftime('%Y%m%d_%H%M%S')}": the time cut to whole seconds
project_id_at(t) == t \div TicksPerSecond

ProjectIds == {project_id_at(t) : t \in 0..MaxNow}

\* ResearchProject.__init__
ResearchProject(project_id, topic) ==
    [id |-> project_id, topic |-> topic, status |-> "initialized"]

\* d[k] = v on a dict
dict_set(d, k, v) == [x \in DOMAIN d \cup {k} |-> IF x = k THEN v ELSE d[x]]

clock_tick ==
    /\ now < MaxNow
    /\ now' = now + 1
    /\ UNCHANGED <<projects, started, reports, run_vars, driver_vars, supervisor_vars>>

start_project ==
    /\ Len(started) < MaxProjects
    /\ \E topic \in Topics :
         LET project_id == project_id_at(now)
             project == ResearchProject(project_id, topic)
         IN  /\ projects' = dict_set(projects, project_id, project)
             /\ started' = Append(started, project)
    /\ UNCHANGED <<now, reports, run_vars, driver_vars, supervisor_vars>>

list_projects ==
    {[project_id |-> projects[p].id, topic |-> projects[p].topic, status |-> projects[p].status] :
        p \in DOMAIN projects}

\* what supervisor.execute_workflow does when awaited: it raises, or returns a
\* result with one of its three statuses
WorkflowOutcomes == {"raises", "completed", "completed_with_errors", "failed"}

\* what report_generator.generate_final_report does when awaited
GeneratorOutcomes == {"raises", "returns"}

\* str(e) of the exception a collaborator raised
ErrorOf(collaborator) == IF collaborator = "workflow" THEN "workflow error" ELSE "report error"

\* variant: the failed result does not carry the exception's message
failed_report_without_message(project_id, message) ==
    [status |-> "failed", project_id |-> project_id, error |-> "unknown error"]

\* the dictionary returned by the except branch of generate_report
failed_report(project_id, message) ==
    [status |-> "failed", project_id |-> project_id, error |-> message]

\* the call of generate_report being recorded
Call(project_id, workflow, generator) ==
    [project_id |-> project_id, workflow |-> workflow, generator |-> generator,
     started_before |-> Len(started)]

generate_report ==
    /\ Len(reports) < MaxReports
    /\ \E project_id \in ProjectIds :
         IF project_id \notin DOMAIN projects
         THEN \* raise ValueError(f"Project {project_id} not found")
              /\ reports' = Append(reports, [call |-> Call(project_id, "none", "none"),
                                             outcome |-> "raised",
                                             value |-> [error |-> "not found"]])
              /\ UNCHANGED projects
         ELSE \E workflow \in WorkflowOutcomes :
              \E generator \in IF workflow = "raises" THEN {"none"} ELSE GeneratorOutcomes :
                IF workflow = "raises" \/ generator = "raises"
                THEN \* except Exception as e
                     /\ projects' = [projects EXCEPT ![project_id].status = "failed"]
                     /\ reports' = Append(reports,
                          [call |-> Call(project_id, workflow, generator),
                           outcome |-> "returned",
                           value |-> failed_report(project_id,
                                        ErrorOf(IF workflow = "raises" THEN "workflow"
                                                ELSE "generator"))])
                ELSE LET status == IF workflow = "completed" THEN "completed"
                                   ELSE "completed_with_errors"
                     IN  /\ projects' = [projects EXCEPT ![project_id].status = status]
                         /\ reports' = Append(reports,
                              [call |-> Call(project_id, workflow, generator),
                               outcome |-> "returned",
                               value |-> [status |-> status, project_id |-> project_id]])
    /\ UNCHANGED <<now, started, run_vars, driver_vars, supervisor_vars>>

\* a fresh system; no workflow run of the graph is modelled here
SystemInit ==
    /\ initial_state
    /\ stream_mode = "none"
    /\ callback_log = <<>>
    /\ workflow_result = NotReturned
    /\ no_projects

SystemNext ==
    \/ clock_tick
    \/ start_project
    \/ generate_report

SystemSpec == SystemInit /\ [][SystemNext]_vars

(***************************************************************************)
(* Several calls of execute_workflow on one HierarchicalSupervisor          *)
(***************************************************************************)
MaxRuns == 2
MaxRunSteps == 2

\* f"workflow_{datetime.now().strftime('%Y%m%d_%H%M%S')}": the time cut to whole seconds
thread_id_at(t) == t \div TicksPerSecond

\* SupervisorState(...): every call builds its own lists and dicts
fresh_state == [errors |-> <<>>, agent_outputs |-> [x \in {} |-> 0], qa_retry_count |-> 0]

\* what a node of the graph does to the state record it is handed: an agent
\* returns, an agent fails, or the quality gate counts a retry
RunEffects == {"returns", "fails", "retry"}

node_effect(state, effect) ==
    IF effect = "returns"
    THEN [state EXCEPT !.agent_outputs =
              update_state(@, "DomainAnalysisAgent", Result("DomainAnalysisAgent", 0))]
    ELSE IF effect = "fails"
    THEN [state EXCEPT !.errors = process_errors(@, "DomainAnalysisAgent", FALSE)]
    ELSE [state EXCEPT !.qa_retry_count = @ + 1]

\* the graph is compiled with self.checkpointer and run with
\* config["configurable"]["thread_id"]: the state is saved under the thread id
put_checkpoint(saved, thread, state) == dict_set(saved, thread, state)

\* execute_workflow is called: initial_state and thread_id are created
execute_workflow_start ==
    /\ Len(runs) < MaxRuns
    /\ runs' = Append(runs, [thread_id |-> thread_id_at(now), state |-> fresh_state, steps |-> 0])
    /\ UNCHANGED <<checkpoints, run_vars, driver_vars, system_vars>>

\* a node of run r completes and the state it returns is checkpointed
run_step ==
    \E r \in 1..Len(runs) :
    \E effect \in RunEffects :
        /\ runs[r].steps < MaxRunSteps
        /\ LET after == node_effect(runs[r].state, effect)
           IN  /\ runs' = [runs EXCEPT ![r].state = after, ![r].steps = @ + 1]
               /\ checkpoints' = put_checkpoint(checkpoints, runs[r].thread_id, after)
        /\ UNCHANGED <<run_vars, driver_vars, system_vars>>

RunsInit ==
    /\ initial_state
    /\ stream_mode = "none"
    /\ callback_log = <<>>
    /\ workflow_result = NotReturned
    /\ no_projects

RunsNext ==
    \/ clock_tick
    \/ execute_workflow_start
    \/ run_step

RunsSpec == RunsInit /\ [][RunsNext]_vars

(***************************************************************************)
(* Properties                                                              *)
(***************************************************************************)
\* the edge leaving phase has just been evaluated (nothing has run since)
JustRouted(phase) == prev_node = phase /\ pc \in {"start", "done", "pure"}

PeerReviewItems ==
    IF "PeerReviewAgent" \in DOMAIN agent_outputs /\ agent_outputs["PeerReviewAgent"].kind = "list"
    THEN agent_outputs["PeerReviewAgent"].items
    ELSE <<>>

QaPasses == Count(trace, "quality_assurance")

\* C1: qa_retry_count stays within 0..3 and never decreases; whenever the
\* quality-assurance transition is evaluated with qa_retry_count = 3 and at most
\* 10 errors it yields continue, and it would do so for every peer-review value.
C1_RetryCountBounded ==
    /\ [](qa_retry_count \in 0..3)
    /\ [][qa_retry_count' >= qa_retry_count]_vars
    /\ []((qa_retry_count = 3 /\ Len(errors) <= 10) =>
            /\ JustRouted("quality_assurance") => decision = "continue"
            /\ \A v \in PeerReviewValues \cup {AbsentValue} :
                 should_continue_to_generation(errors,
                     OutputsWith(DOMAIN agent_outputs \ {"PeerReviewAgent"}, v), 3) = "continue")

C1_Witness ==
    JustRouted("quality_assurance") /\ qa_retry_count = 3 /\ decision = "continue"
    /\ Len(PeerReviewItems) = 3 /\ PeerReviewItems[3].quality_score < QualityThreshold

\* C2 (Scenario B): after three consecutive quality-assurance passes whose peer
\* review scored below 6.0, qa_retry_count is 3 and the third pass, like the
\* first two, routes to edit, so that a fourth pass takes place.
C2_ScenarioB ==
    (/\ QaPasses = 3
     /\ JustRouted("quality_assurance")
     /\ Len(errors) <= 10
     /\ Len(PeerReviewItems) = 3
     /\ \A i \in 1..3 : PeerReviewItems[i].quality_score < QualityThreshold)
    => (qa_retry_count = 3 /\ decision = "edit" /\ node = "editing")

\* C3: termination.  Looping is bounded by the error thresholds: every retry of
\* research_planning has consumed error budget, so the phase is executed at most
\* PlanningErrorLimit + 1 times before the run moves on or ends.
C3_Termination ==
    Count(trace, "research_planning") <= PlanningErrorLimit + 1

FirstQa == FirstIndex(trace, "quality_assurance")

\* the first quality-assurance pass has returned with a peer-review score below 6.0
FirstQaScoredLow ==
    /\ Contains(trace, "quality_assurance")
    /\ \/ Len(trace) > FirstQa
       \/ Len(trace) = FirstQa /\ JustRouted("quality_assurance")
    /\ PeerReviewItems # <<>>
    /\ PeerReviewItems[1].quality_score < QualityThreshold

\* C4 (Scenario A) as claimed: after a first quality-assurance pass scoring below
\* 6.0 the transition is edit, qa_retry_count becomes 1, and editing, analysis and
\* quality_assurance are executed next, in that order.
C4_ScenarioA_Claimed ==
    FirstQaScoredLow =>
        /\ Len(trace) = FirstQa => (decision = "edit" /\ qa_retry_count = 1 /\ node = "editing")
        /\ Len(trace) >= FirstQa + 1 => trace[FirstQa + 1] = "editing"
        /\ Len(trace) >= FirstQa + 2 => trace[FirstQa + 2] = "analysis"
        /\ Len(trace) >= FirstQa + 3 => trace[FirstQa + 3] = "quality_assurance"
        /\ pc = "done" => Len(trace) >= FirstQa + 3

\* C4 (Scenario A) amended: after a first quality-assurance pass scoring below 6.0
\* the transition is edit, qa_retry_count becomes 1, editing and then analysis are
\* executed next; quality_assurance runs again after that analysis pass unless
\* errors has more than 7 entries at the analysis transition, which ends the run.
C4_ScenarioA ==
    FirstQaScoredLow =>
        /\ Len(trace) = FirstQa => (decision = "edit" /\ qa_retry_count = 1 /\ node = "editing")
        /\ Len(trace) >= FirstQa + 1 => trace[FirstQa + 1] = "editing"
        /\ Len(trace) >= FirstQa + 2 => trace[FirstQa + 2] = "analysis"
        /\ (Len(trace) = FirstQa + 2 /\ JustRouted("analysis")) =>
               node = (IF Len(errors) > AnalysisErrorLimit THEN END ELSE "quality_assurance")
        /\ Len(trace) >= FirstQa + 3 => trace[FirstQa + 3] = "quality_assurance"
        /\ pc = "done" => (Len(trace) >= FirstQa + 3 \/ Len(errors) > AnalysisErrorLimit)

C4_Witness ==
    /\ FirstQaScoredLow
    /\ Len(trace) = FirstQa + 3
    /\ trace[FirstQa + 3] = "quality_assurance"
    /\ pc = "route"

\* C5: the research_planning transition is continue whenever errors has at most 3
\* entries and the three required outputs are present; it is retry only when
\* errors has at most 3 entries and a required output is missing.
C5_PlanningTransition ==
    JustRouted("research_planning") =>
        LET complete == \A a \in planning_required_outputs : a \in DOMAIN agent_outputs
        IN  /\ (Len(errors) <= 3 /\ complete) => decision = "continue"
            /\ decision = "retry" => (Len(errors) <= 3 /\ ~complete)

ErrorLimit(phase) ==
    CASE phase = "research_planning" -> PlanningErrorLimit
      [] phase = "data_collection" -> DataCollectionErrorLimit
      [] phase = "analysis" -> AnalysisErrorLimit
      [] phase = "quality_assurance" -> GenerationErrorLimit

\* C6: each transition predicate returns end exactly when len(errors) exceeds the
\* threshold of its phase (3, 5, 7, 10), whatever the outputs, the quality score
\* and qa_retry_count are.
C6_ThresholdOrdering ==
    prev_node \in {"research_planning", "data_collection", "analysis", "quality_assurance"} =>
        (decision = "end" <=> Len(errors) > ErrorLimit(prev_node))

C6_Witness ==
    /\ prev_node = "quality_assurance"
    /\ Len(errors) = 11
    /\ decision = "end"
    /\ qa_retry_count = 0
    /\ PeerReviewItems # <<>>
    /\ PeerReviewItems[1] = Result("PeerReviewAgent", 40)

AnalysisStep == pc = "await" /\ node = "analysis"

\* C7 (Scenario E): when an agent of the analysis phase fails, an error is appended
\* to errors, the next analysis agent is invoked all the same, and the failed
\* agent's name is not added to completed_agents.
C7_ScenarioE ==
    [][(AnalysisStep /\ errors' # errors) =>
          /\ errors' = Append(errors, error_message(analysis_agents[idx].agent))
          /\ idx < Len(analysis_agents) => (pc' = "await" /\ idx' = idx + 1)
          /\ invoked' = SubSeq(Labels(analysis_agents), 1, idx)
          /\ ~Contains(completed_agents', analysis_agents[idx].label)]_vars

NoDuplicates(list) == \A i, j \in 1..Len(list) : list[i] = list[j] => i = j

\* C8: phases_completed has at most 5 entries, no entry twice and never editing,
\* and no step removes an entry from it.
C8_PhasesCompleted ==
    /\ [](/\ Len(progress.phases_completed) <= 5
          /\ NoDuplicates(progress.phases_completed)
          /\ ~Contains(progress.phases_completed, "editing"))
    /\ [][\A i \in 1..Len(progress.phases_completed) :
             Contains(progress.phases_completed', progress.phases_completed[i])]_vars

C8_Witness ==
    /\ Count(trace, "analysis") >= 2
    /\ Count(trace, "quality_assurance") >= 2
    /\ Contains(trace, "editing")
    /\ pc = "done"
    /\ Len(progress.phases_completed) = 5

\* C9: errors is append-only: every step leaves the previous contents of errors as
\* a prefix of the new contents.
C9_ErrorsAppendOnly ==
    [][IsPrefix(errors, errors')]_vars

C9_Witness ==
    /\ Len(errors) >= 2
    /\ Count(trace, "analysis") >= 2
    /\ Count(trace, "research_planning") = 1
    /\ JustRouted("analysis")
    /\ decision = "continue"

NotAnalysisAgent(x) == x \notin analysis_agent_names
NotQaAgent(x) == x \notin qa_agent_names

\* C10: entering the analysis phase removes exactly the three analysis agent names
\* from completed_agents and leaves every other entry in place and in order;
\* entering quality_assurance does the same for its own three agent names.
C10_PhaseReentry ==
    [][/\ (pc = "start" /\ node = "analysis" /\ pc' = "await") =>
            completed_agents' = SelectSeq(completed_agents, NotAnalysisAgent)
       /\ (pc = "start" /\ node = "quality_assurance" /\ pc' = "await") =>
            completed_agents' = SelectSeq(completed_agents, NotQaAgent)]_vars

C10_Witness ==
    /\ node = "analysis" /\ pc = "await" /\ idx = 1
    /\ Contains(completed_agents, "editor")
    /\ Contains(completed_agents, "peer_review")
    /\ Contains(completed_agents, "domain_analysis")
    /\ \A x \in analysis_agent_names : ~Contains(completed_agents, x)
    /\ Count(trace, "analysis") = 2

\* the peer-review output is missing, an empty list, neither a list nor a mapping,
\* or a result that lacks quality_score
PeerReviewMalformed ==
    \/ "PeerReviewAgent" \notin DOMAIN agent_outputs
    \/ /\ "PeerReviewAgent" \in DOMAIN agent_outputs
       /\ agent_outputs["PeerReviewAgent"] \in
            {ListValue(<<>>), OtherValue,
             ListValue(<<[timestamp |-> "t"]>>), DictValue([timestamp |-> "t"])}

\* C15 (Scenario C, fail-open): with the peer-review output missing or malformed
\* and at most 10 errors, a step of the quality gate leaves qa_retry_count as it
\* was and an evaluation of the quality-assurance transition yields continue.
C15_ScenarioC ==
    [][(PeerReviewMalformed /\ Len(errors) <= GenerationErrorLimit) =>
         /\ qa_retry_count' = qa_retry_count
         /\ prev_node' = "quality_assurance" => decision' = "continue"]_vars

C15_Witness ==
    /\ "PeerReviewAgent" \in DOMAIN agent_outputs
    /\ agent_outputs["PeerReviewAgent"] = ListValue(<<[timestamp |-> "t"]>>)
    /\ Len(errors) = GenerationErrorLimit
    /\ qa_retry_count = 0
    /\ JustRouted("quality_assurance")
    /\ decision = "continue"

\* the first research_planning pass has returned with its three required outputs
\* present and no error, and its transition has been evaluated
FirstPlanningPassClean ==
    /\ trace = <<"research_planning">>
    /\ JustRouted("research_planning")
    /\ errors = <<>>
    /\ \A a \in planning_required_outputs : a \in DOMAIN agent_outputs

\* C16 (Scenario D): when the first research_planning pass ends with all three
\* required outputs present and errors empty, the transition is continue,
\* phases_completed is exactly <<research_planning>>, current_phase is
\* research_planning and completed_agents holds the three planning agents.
C16_ScenarioD ==
    FirstPlanningPassClean =>
        /\ decision = "continue"
        /\ node = "data_collection"
        /\ progress.phases_completed = <<"research_planning">>
        /\ current_phase = "research_planning"
        /\ progress.current_phase = "research_planning"
        /\ completed_agents = Labels(planning_agents)

C16_Witness ==
    FirstPlanningPassClean /\ decision = "continue" /\ Len(completed_agents) = 3

\* the fields of SupervisorState
StateFields == <<current_phase, progress, agent_outputs, completed_agents, user_sources,
                 errors, qa_retry_count>>

\* C17: evaluating a transition predicate leaves every state field unchanged;
\* qa_retry_count changes only in the step of the quality-assurance executor that
\* follows its third agent, by exactly +1, hence at most once per pass.
C17_PredicatesPure ==
    /\ [][pc = "route" => UNCHANGED StateFields]_vars
    /\ [][qa_retry_count' # qa_retry_count =>
            /\ node = "quality_assurance" /\ pc = "await" /\ pc' = "route"
            /\ invoked' = Labels(qa_agents)
            /\ qa_retry_count' = qa_retry_count + 1]_vars
    /\ [](qa_retry_count <= QaPasses)

C17_Witness ==
    /\ JustRouted("quality_assurance")
    /\ decision = "edit"
    /\ QaPasses = 2
    /\ qa_retry_count = 2

\* what may follow each phase
Successors ==
    [research_planning |-> {"research_planning", "data_collection", END},
     data_collection   |-> {"analysis", END},
     analysis          |-> {"analysis", "quality_assurance", END},
     quality_assurance |-> {"report_generation", "editing", END},
     editing           |-> {"analysis"},
     report_generation |-> {END}]

\* C18: the run starts at research_planning; each phase is followed only by one
\* of its specified successors (data_collection never by itself, editing always
\* by analysis, report_generation always by end); nothing runs after end.
C18_Edges ==
    /\ [](trace = <<>> => node = "research_planning")
    /\ [](trace # <<>> => trace[1] = "research_planning")
    /\ [](\A i \in 1..(Len(trace) - 1) : trace[i + 1] \in Successors[trace[i]])
    /\ [][pc = "route" => (node = trace[Len(trace)] /\ node' \in Successors[node])]_vars
    /\ [][pc # "route" => node' = node]_vars
    /\ [](node = END => (pc = "done" /\ END \in Successors[trace[Len(trace)]]))
    /\ [][node # END]_vars

C18_Witness ==
    /\ node = END
    /\ Contains(trace, "editing")
    /\ trace[Len(trace)] = "report_generation"

\* execute_workflow has returned
Returned == workflow_result # NotReturned

\* an exception escaped the loop over the phases (in this model: from the callback)
ExceptionEscaped == \E i \in 1..Len(callback_log) : callback_log[i].raised

\* C11: the returned status is completed exactly when the run reached end with
\* errors empty, completed_with_errors exactly when it reached end with errors
\* non-empty, and failed only when an exception escaped the phase machinery.
C11_Status ==
    Returned =>
        /\ workflow_result.status = "failed" => ExceptionEscaped
        /\ workflow_result.status \in {"completed", "completed_with_errors"} => node = END
        /\ ~ExceptionEscaped =>
              /\ workflow_result.status = "completed" <=> errors = <<>>
              /\ workflow_result.status = "completed_with_errors" <=> errors # <<>>

\* the fields every WorkflowResult has to define
ResultFields == {"status", "agent_outputs", "progress", "errors", "completed_agents", "thread_id"}

\* C12: every returned result, whatever its status, defines status, agent_outputs,
\* progress, errors, completed_agents and the run identifier; a failed result
\* holds the exception message in errors.
C12_ResultFields ==
    Returned =>
        /\ ResultFields \subseteq DOMAIN workflow_result
        /\ workflow_result.status = "failed" => Contains(workflow_result.errors, CallbackError)

\* C13: an exception raised by the progress callback does not abort the run: the
\* run is never failed because of it, and the phases go on until end is reached.
C13_CallbackFireAndForget ==
    ExceptionEscaped =>
        /\ workflow_result.status # "failed"
        /\ Returned => node = END

\* number of phase executions whose item the loop has consumed
ItemsConsumed == IF pc \in {"start", "done"} THEN Len(trace) ELSE Len(trace) - 1

\* C14: the callback has been invoked once for every phase execution that has
\* returned, in order, with that phase's name and a percentage in 0..100, the
\* last one being the percentage the executor has just computed.
C14_CallbackPerPhase ==
    (stream_mode \in StreamModes /\ trace # <<>>) =>
        /\ Len(callback_log) = ItemsConsumed
        /\ \A i \in 1..Len(callback_log) :
              /\ callback_log[i].phase = trace[i]
              /\ callback_log[i].percentage \in 0..100
        /\ (pc \in {"start", "done"}) =>
              callback_log[Len(callback_log)].percentage = progress.completion_percentage

\* C19: after n calls of start_project the system holds n projects, every
\* project returned so far is still found under its own id with its own topic,
\* and list_projects returns n entries.
C19_DistinctProjects ==
    /\ Cardinality(DOMAIN projects) = Len(started)
    /\ \A k \in 1..Len(started) :
          /\ started[k].id \in DOMAIN projects
          /\ projects[started[k].id].topic = started[k].topic
    /\ Cardinality(list_projects) = Len(started)

\* C20: for a known project generate_report returns instead of raising; when the
\* workflow or the report generator throws, the result has status failed and the
\* error message and the project's status is failed; whatever failed before,
\* start_project still registers a new project and a later generate_report whose
\* collaborators succeed returns completed.
C20_GenerateReportReturns ==
    /\ [][reports' # reports =>
            LET r == reports'[Len(reports')]
                thrown == r.call.workflow = "raises" \/ r.call.generator = "raises"
            IN  r.call.project_id \in DOMAIN projects =>
                  /\ r.outcome = "returned"
                  /\ thrown =>
                        /\ r.value.status = "failed"
                        /\ r.value.error = ErrorOf(IF r.call.workflow = "raises"
                                                   THEN "workflow" ELSE "generator")
                        /\ projects'[r.call.project_id].status = "failed"
                  /\ (r.call.workflow = "completed" /\ r.call.generator = "returns") =>
                        /\ r.value.status = "completed"
                        /\ projects'[r.call.project_id].status = "completed"]_vars
    /\ [][started' # started =>
            LET project == started'[Len(started')]
            IN  /\ project.id \in DOMAIN projects'
                /\ projects'[project.id] = project
                /\ project.status = "initialized"]_vars

\* a report failed, a project was started after that under a new id, and its
\* report was generated
C20_Witness ==
    \E i, j \in 1..Len(reports) :
    \E k \in 1..Len(started) :
        /\ i < j
        /\ reports[i].outcome = "returned" /\ reports[i].value.status = "failed"
        /\ k > reports[i].call.started_before
        /\ started[k].id # reports[i].call.project_id
        /\ reports[j].call.project_id = started[k].id
        /\ reports[j].call.started_before >= k
        /\ reports[j].outcome = "returned" /\ reports[j].value.status = "completed"

\* the agents of the phases that are run again after an editing pass
RerunAgentNames ==
    {analysis_agents[i].agent : i \in 1..Len(analysis_agents)}
    \cup {qa_agents[i].agent : i \in 1..Len(qa_agents)}

\* C22: the agent_outputs entry of an agent of a rerunning phase (analysis,
\* quality_assurance) holds only the result of its latest successful attempt,
\* never results of earlier attempts as well.
C22_RerunReplaces ==
    \A a \in RerunAgentNames :
        a \in DOMAIN agent_outputs => Len(agent_outputs[a].items) = 1

\* the peer review of every quality-assurance pass so far has returned a result,
\* so the last item is the result of the latest pass
LatestPeerReview == PeerReviewItems[Len(PeerReviewItems)]

\* C23: the gate uses the score of the same pass.  When the peer review of the
\* pass that has just ended scored 6.0 or more (at most 10 errors), that pass did
\* not increment qa_retry_count and its transition is continue.
C23_FreshScore ==
    /\ [][(/\ node = "quality_assurance" /\ pc = "await" /\ pc' = "route"
           /\ "PeerReviewAgent" \in DOMAIN agent_outputs'
           /\ Len(agent_outputs'["PeerReviewAgent"].items) = QaPasses
           /\ agent_outputs'["PeerReviewAgent"].items[QaPasses].quality_score >= QualityThreshold)
          => qa_retry_count' = qa_retry_count]_vars
    /\ []((/\ JustRouted("quality_assurance")
           /\ Len(errors) <= GenerationErrorLimit
           /\ PeerReviewItems # <<>>
           /\ Len(PeerReviewItems) = QaPasses
           /\ LatestPeerReview.quality_score >= QualityThreshold)
          => decision = "continue")

EditingPasses == Count(trace, "editing")

\* C24: a quality-assurance pass ending with at most 10 errors has incremented
\* qa_retry_count exactly if its transition is edit, so the count equals the
\* number of editing passes made or just decided on, and at the end of a run the
\* number of editing passes equals qa_retry_count and is at most 3.
C24_RetriesAreEdits ==
    /\ (JustRouted("quality_assurance") /\ Len(errors) <= GenerationErrorLimit) =>
          qa_retry_count = EditingPasses + (IF decision = "edit" THEN 1 ELSE 0)
    /\ node = END => (EditingPasses = qa_retry_count /\ EditingPasses <= MaxQaRetries)

\* C25: completed_agents is set-like: no agent identifier occurs in it more than
\* once, whatever retries and editing passes have happened.
C25_CompletedAgentsSetLike ==
    \A i, j \in 1..Len(completed_agents) :
        completed_agents[i] = completed_agents[j] => i = j

\* C26: whenever no executor is in progress, completion_percentage is 20 times
\* the number of phases completed (100 once report_generation has returned); it
\* is one of 0, 20, 40, 60, 80, 100 in every state and never decreases.
C26_CompletionPercentage ==
    /\ [](pc \in {"start", "route", "done"} =>
            progress.completion_percentage = 20 * Len(progress.phases_completed))
    /\ []((pc \in {"route", "done"} /\ trace[Len(trace)] = "report_generation") =>
            progress.completion_percentage = 100)
    /\ [](progress.completion_percentage \in {0, 20, 40, 60, 80, 100})
    /\ [][progress'.completion_percentage >= progress.completion_percentage]_vars

\* an editing pass and a rerun have returned and report_generation has ended
C26_Witness ==
    /\ node = END
    /\ EditingPasses = 2
    /\ trace[Len(trace)] = "report_generation"
    /\ progress.completion_percentage = 100

\* C28: data_collection is entered only with errors empty, adds no error and
\* runs at most once, so its transition never yields end or retry.
C28_DataCollectionOnce ==
    /\ [](Count(trace, "data_collection") <= 1)
    /\ [][(node = "data_collection" /\ pc = "start") =>
            (errors = <<>> /\ errors' = <<>>)]_vars
    /\ [](JustRouted("data_collection") =>
            (decision = "continue" /\ node = "analysis" /\ errors = <<>>))
    /\ [](\A i \in 1..(Len(trace) - 1) :
            trace[i] = "data_collection" => trace[i + 1] = "analysis")

C28_Witness ==
    /\ node = END
    /\ Count(trace, "data_collection") = 1
    /\ Count(trace, "analysis") = 2
    /\ errors # <<>>

\* the sections written so far in the current report_generation pass
SectionsWritten ==
    IF "SectionWritingAgent" \in DOMAIN agent_outputs
    THEN agent_outputs["SectionWritingAgent"].items
    ELSE <<>>

GenerationReturned ==
    pc \in {"route", "done"} /\ Len(trace) > 0 /\ trace[Len(trace)] = "report_generation"

\* C27: report_generation invokes the section writer six times, in the order of
\* sections_to_write; the i-th invocation writes the i-th section; without failures
\* the final assembly gathers six distinct sections.
C27_SixSections ==
    /\ [](GenerationReturned =>
            /\ Len(invoked) = Len(generation_agents)
            /\ \A i \in 1..Len(sections_to_write) : invoked[i] = sections_to_write[i])
    /\ [][(node = "report_generation" /\ pc = "await" /\ idx <= Len(sections_to_write)
             /\ Len(SectionsWritten') = Len(SectionsWritten) + 1) =>
            SectionsWritten'[Len(SectionsWritten')].section_name = sections_to_write[idx]]_vars
    /\ []((GenerationReturned /\ errors = <<>>) =>
            gather_sections(agent_outputs) =
                {sections_to_write[i] : i \in 1..Len(sections_to_write)})

\* the editor has returned in this step: its entry has grown by one result
EditorReturned ==
    /\ node = "editing" /\ pc = "await"
    /\ "EditorAgent" \in DOMAIN agent_outputs'
    /\ "EditorAgent" \notin DOMAIN agent_outputs

NoQaFeedback == qa_required_outputs \cap DOMAIN agent_outputs = {}

LastReport == reports'[Len(reports')]

\* C29: when execute_workflow returns a result with status failed, generate_report
\* returns status failed and the project's status becomes failed.
C29_FailurePropagates ==
    [][(Len(reports') = Len(reports) + 1 /\ LastReport.call.workflow = "failed") =>
        /\ LastReport.value.status = "failed"
        /\ projects'[LastReport.call.project_id].status = "failed"]_vars

\* C21: two runs on one supervisor never share workflow state: each has its own
\* thread id, a step of one run changes no other run's state record, and the
\* checkpoint thread of a run holds that run's state.
C21_RunsIsolated ==
    /\ [](\A r1, r2 \in 1..Len(runs) :
            r1 # r2 => runs[r1].thread_id # runs[r2].thread_id)
    /\ [][\A r \in 1..Len(runs) :
            runs'[r].state # runs[r].state =>
                \A q \in 1..Len(runs) : q # r => runs'[q].state = runs[q].state]_vars
    /\ [](\A r \in 1..Len(runs) :
            runs[r].steps > 0 => checkpoints[runs[r].thread_id] = runs[r].state)

====
